---- MODULE Spec2Model ----
(***************************************************************************)
(* Round transcription of Deepgram-modular: the round trigger route        *)
(* (POST /api/rounds/{roundId}/transcribe), the upload route               *)
(* (POST /api/transcribe), the file storage they use, the session registry *)
(* behind the stats route, the ontology builder and the AudioRecorder      *)
(* component.  Every request                                               *)
(* handler is a process; every await of a handler is a step, so that       *)
(* concurrent requests interleave exactly where Node lets them.            *)
(***************************************************************************)
EXTENDS Integers, Sequences, FiniteSets, TLC

\* ------------------------------------------------------------------ bounds
NumTriggers == 2
NumUploads == 1
\* The chunks one session accepts before further ones are left out.
MaxChunks == 3
\* The utterances of a transcript given to the ontology builder.
MaxUtterances == 2
\* The clicks on Start of one AudioRecorder.
MaxStarts == 2
\* The dataavailable events of one media recorder.
MaxData == 2
\* The steps the clock takes, of TickMs each.
MaxTicks == 3

\* Rounds are independent: no handler reads or writes the record or the files
\* of a round other than its own. One round id is modelled.
RoundIds == {1}
Triggers == 1..NumTriggers
Uploaders == (NumTriggers + 1)..(NumTriggers + NumUploads)
Procs == Triggers \cup Uploaders

\* ------------------------------------------------------------ round records
RoundStatus == {"CREATED", "RECORDING", "PROCESSING", "COMPLETED", "ERROR"}

\* An optional field is the empty sequence (undefined) or a one-element sequence.
newRound(status) ==
    [status |-> status, audio_file |-> <<>>, transcription_file |-> <<>>,
     duration_seconds |-> <<>>, speaker_count |-> <<>>]

\* getRound(id): the record, absent when there is none.
getRound(rs, id) == IF id \in DOMAIN rs THEN <<rs[id]>> ELSE <<>>

\* updateRound(id, patch): the record with the patch's fields replaced,
\* every other field kept.
updateRound(rs, id, patch) ==
    [rs EXCEPT ![id] = [f \in DOMAIN rs[id] |->
                          IF f \in DOMAIN patch THEN patch[f] ELSE rs[id][f]]]

\* ------------------------------------------------------------ file storage
extensions == <<"webm", "mp3", "wav", "ogg">>

\* audioFileExists(roundId): the first of the four extensions whose file exists.
audioFileExists(files, id) ==
    LET hits == {i \in 1..Len(extensions) : extensions[i] \in files[id]}
    IN  IF hits = {} THEN <<>>
        ELSE <<extensions[CHOOSE i \in hits : \A j \in hits : i <= j]>>

AudioExtensions == {extensions[i] : i \in DOMAIN extensions}

\* The extensions a caller of saveAudioFile may pass: the four above and one
\* that stands for any other.
FileExtensions == AudioExtensions \cup {"m4a"}

\* deleteRoundFiles: the files it unlinks, in the order it unlinks them.
filesToDelete == <<"raw", "deliberation">> \o extensions

\* The bytes of an audio file that is there from the start.
InitialAudio == <<"a">>

\* ------------------------------------------------------- provider responses
Utterance(s, a, b) == [speaker |-> s, start |-> a, end |-> b]

UtteranceSamples ==
    { <<>>,
      <<Utterance("A", 0, 5), Utterance("B", 4, 9)>> }

\* A result object: its results property is an object, null, or undefined.
RawResults ==
    [results : {"object"}, utterances : UtteranceSamples]
      \cup [results : {"null", "undefined"}, utterances : {<<>>}]

\* What transcribeFile resolves to: {result, error}.
ProviderResponses ==
    [error : {TRUE}, result : {<<>>}]
      \cup [error : {FALSE}, result : {<<>>} \cup {<<r>> : r \in RawResults}]

\* JSON.parse(JSON.stringify(result)): an undefined property is dropped.
JsonRoundTrip(result) ==
    [result EXCEPT !.results = IF @ = "undefined" THEN "absent" ELSE @]

\* Mutant: the validation looks for a missing property only, so that a null
\* results passes.
LacksResultsMissingOnly(responseDict) == responseDict.results = "absent"

\* !responseDict.results
LacksResults(responseDict) == responseDict.results \in {"absent", "null", "undefined"}

\* ------------------------------------------------------------ the ontology
SpeakersOf(utts) == {utts[i].speaker : i \in DOMAIN utts}

\* Mutant: the duration is the end of the last utterance.
MaxEndOfLast(utts) ==
    IF utts = <<>> THEN 0 ELSE utts[Len(utts)].end

MaxEnd(utts) ==
    IF utts = <<>> THEN 0
    ELSE LET ends == {utts[i].end : i \in DOMAIN utts}
         IN  CHOOSE m \in ends : \A e \in ends : e <= m

\* A speaker's aggregate speaking time: the durations of the speaker's own
\* utterances, added up one utterance after the other.
RECURSIVE SpeakerTotal(_, _)
SpeakerTotal(utts, s) ==
    IF utts = <<>> THEN 0
    ELSE (IF Head(utts).speaker = s THEN Head(utts).end - Head(utts).start ELSE 0)
            + SpeakerTotal(Tail(utts), s)

\* createDeliberationOntology(raw, filename, language); ok is FALSE for the
\* MalformedInputError of a transcript without the results container.
createDeliberationOntology(raw) ==
    IF raw.results # "object"
    THEN [ok |-> FALSE, speakers |-> {},
          statistics |-> [total_speakers |-> 0, duration_seconds |-> 0]]
    ELSE [ok |-> TRUE,
          speakers |-> {[label |-> s, total_time |-> SpeakerTotal(raw.utterances, s)] :
                           s \in SpeakersOf(raw.utterances)},
          statistics |-> [total_speakers |-> Cardinality(SpeakersOf(raw.utterances)),
                          duration_seconds |-> MaxEnd(raw.utterances)]]

\* The transcripts given to the builder on its own: up to MaxUtterances
\* utterances of two speakers between these points in time, and one
\* transcript without the results container.
TimePoints == {0, 4, 5, 9}

BuilderUtterances ==
    {Utterance(s, span[1], span[2]) :
        s \in {"A", "B"},
        span \in {q \in TimePoints \X TimePoints : q[1] < q[2]}}

RECURSIVE SeqsUpTo(_, _)
SeqsUpTo(S, n) ==
    IF n = 0 THEN {<<>>}
    ELSE LET shorter == SeqsUpTo(S, n - 1)
         IN  shorter \cup {Append(q, x) : q \in shorter, x \in S}


NoOntology == createDeliberationOntology([results |-> "absent", utterances |-> <<>>])
NoResponse == [results |-> "absent", utterances |-> <<>>]

Transcripts ==
    [results : {"object"}, utterances : SeqsUpTo(BuilderUtterances, MaxUtterances)]
      \cup {NoResponse}

\* --------------------------------------------------------- audio sessions
\* The frames a client sends: an empty frame, one byte, two bytes.
Chunks == {<<>>, <<"a">>, <<"b", "c">>}

\* The configured ceiling of one session's cumulative size, in bytes.
MaxSessionBytes == 3

\* A session as open(id) creates it.
newSession(id) ==
    [id |-> id, state |-> "OPEN", chunks |-> <<>>, byteCount |-> 0,
     finalizerRuns |-> 0, result |-> <<>>]

OpenSessions(ss) == {s \in ss : s.state = "OPEN"}

\* assemble(session): the buffered chunks, concatenated in arrival order.
RECURSIVE assemble(_)
\* Mutant: each chunk is put in front of the chunks that came before it.
assembleNewestFirst(chunks) ==
    IF chunks = <<>> THEN <<>> ELSE assemble(Tail(chunks)) \o Head(chunks)

assemble(chunks) ==
    IF chunks = <<>> THEN <<>> ELSE Head(chunks) \o assemble(Tail(chunks))

RECURSIVE TotalBytes(_)
TotalBytes(ss) ==
    IF ss = {} THEN 0
    ELSE LET s == CHOOSE x \in ss : TRUE
         IN  s.byteCount + TotalBytes(ss \ {s})

\* stats(): the active session count, the total of the buffered bytes and
\* each open session's byte count. Elapsed time is not modelled.
getSessionStats(ss) ==
    [activeSessions |-> Cardinality(OpenSessions(ss)),
     totalBytes |-> TotalBytes(OpenSessions(ss)),
     sessions |-> {[id |-> s.id, byteCount |-> s.byteCount] : s \in OpenSessions(ss)}]

\* What close(id) returns.
Persisted(ext) == [ok |-> TRUE, ref |-> <<ext>>, error |-> "none"]
Failed(error) == [ok |-> FALSE, ref |-> <<>>, error |-> error]

\* finalized: the call ran the finalizer.
NoOutcome ==
    [op |-> "none", id |-> 0, error |-> "none", result |-> <<>>, stats |-> <<>>,
     finalized |-> FALSE, ref |-> <<>>, found |-> FALSE]

\* No saveTranscription and no deleteRoundFiles is under way.
NoStorageCall == [saving |-> <<>>, saveId |-> 0, deleting |-> 0, deleteId |-> 0]

\* ------------------------------------------------------------------- state
NoReturn ==
    [proc |-> 0, code |-> "none", error |-> "none", errorWrite |-> "none",
     roundId |-> 0, effects |-> {}, providerResult |-> "none"]

VARIABLES
    rounds,            \* the stored round records, by round id
    audioFiles,        \* public/audio: the extensions present, by round id
    rawFile,           \* data/transcriptions/{id}_raw.json, <<>> when missing
    deliberationFile,  \* data/transcriptions/{id}_deliberation.json
    apiKey,            \* whether DEEPGRAM_API_KEY is set
    pc,                \* each request's position
    roundId,           \* each request's round id (0: none)
    audioPath,         \* the extension audioFileExists returned
    responseDict,      \* the validated provider response
    deliberationData,  \* the ontology built from it
    bodyUsed,          \* upload: the request body has been consumed
    providerResult,    \* history: the kind of response the provider gave
    effects,           \* history: what the running request has done so far
    audioData,         \* public/audio: the bytes of each file, by round id and
                       \* extension; <<>> when there is no such file
    sessions,          \* the session registry: a set of session records
    outcome,           \* history: what the last step returned, if it was a
                       \* registry operation or a stats read
    reported,          \* history: the byte count last reported by a stats
                       \* read for the open session of each id
    storage,           \* the calls of saveTranscription and deleteRoundFiles
                       \* under way: what is being saved, and the index in
                       \* filesToDelete of the next file to unlink (0: none)
    isRecording,       \* AudioRecorder: useState
    isPaused,          \* useState
    duration,          \* useState: the seconds the component shows
    mediaRecorderRef,  \* useRef: a media recorder's number, 0 for null
    chunksRef,         \* useRef: the chunks collected
    timerRef,          \* useRef: whether it holds a running interval
    startTimeRef,      \* useRef, in milliseconds
    pausedTimeRef,     \* useRef, in milliseconds
    mounted,           \* the component is mounted
    now,               \* Date.now(), in milliseconds
    pendingStarts,     \* the calls of startRecording waiting for
                       \* getUserMedia: the duration each one closed over
    mediaRecorders,    \* the media recorders created, by number: state,
                       \* whether the stop event is still to come, whether the
                       \* stream is live, the duration onstop closed over,
                       \* and as history the chunks emitted and the duration
                       \* shown when stop() was called
    orphanTimers,      \* running intervals that timerRef no longer holds
    completed,         \* history: the calls of onRecordingComplete
    transcript,        \* the raw transcript handed to the ontology builder
    ontology,          \* what the builder last returned, <<>> before
    returned           \* history: the response the last step returned, if it
                       \* returned one: who, status code, the error field
                       \* of its body, what became of the
                       \* handler's ERROR write (none, ok, failed), and the
                       \* round id and history of the request it ends

\* What no route handler writes: the API key, the bytes of the audio files,
\* the session registry and the builder's own input and output.
registry == <<sessions, reported>>
component == <<isRecording, isPaused, duration, mediaRecorderRef, chunksRef,
               timerRef, startTimeRef, pausedTimeRef, mounted>>
browser == <<now, pendingStarts, mediaRecorders, orphanTimers, completed>>
recorder == <<component, browser>>
outside == <<apiKey, audioData, registry, storage, transcript, ontology, recorder>>
globals == <<rounds, audioFiles, rawFile, deliberationFile, outside>>
files == <<audioFiles, rawFile, deliberationFile>>
locals == <<roundId, audioPath, responseDict, deliberationData, bodyUsed>>
history == <<providerResult, effects>>
vars == <<globals, pc, locals, history, returned, outcome>>

\* A round starts CREATED; opening its session makes it RECORDING, and only a
\* recorded round has an audio artifact.
InitialRounds ==
    { [rec |-> newRound("CREATED"), audio |-> {}],
      [rec |-> newRound("RECORDING"), audio |-> {}],
      [rec |-> newRound("RECORDING"), audio |-> {"webm"}],
      [rec |-> newRound("RECORDING"), audio |-> {"wav", "ogg"}] }

Init ==
    /\ \E ids \in SUBSET RoundIds :
         \E f \in [RoundIds -> InitialRounds] :
            /\ rounds = [id \in ids |-> f[id].rec]
            /\ audioFiles = [id \in RoundIds |-> IF id \in ids THEN f[id].audio ELSE {}]
    /\ audioData = [id \in RoundIds |->
                      [e \in FileExtensions |->
                         IF e \in audioFiles[id] THEN <<InitialAudio>> ELSE <<>>]]
    /\ sessions = {}
    /\ outcome = NoOutcome
    /\ reported = [id \in RoundIds |-> 0]
    /\ storage = NoStorageCall
    /\ isRecording = FALSE
    /\ isPaused = FALSE
    /\ duration = 0
    /\ mediaRecorderRef = 0
    /\ chunksRef = <<>>
    /\ timerRef = FALSE
    /\ startTimeRef = 0
    /\ pausedTimeRef = 0
    /\ mounted = TRUE
    /\ now = 0
    /\ pendingStarts = <<>>
    /\ mediaRecorders = <<>>
    /\ orphanTimers = 0
    /\ completed = <<>>
    /\ transcript = NoResponse
    /\ ontology = <<>>
    /\ rawFile = [id \in RoundIds |-> <<>>]
    /\ deliberationFile = [id \in RoundIds |-> <<>>]
    /\ apiKey \in BOOLEAN
    /\ pc = [p \in Procs |-> "idle"]
    /\ roundId = [p \in Procs |-> 0]
    /\ audioPath = [p \in Procs |-> <<>>]
    /\ responseDict = [p \in Procs |-> NoResponse]
    /\ deliberationData = [p \in Procs |-> NoOntology]
    /\ bodyUsed = [p \in Procs |-> FALSE]
    /\ providerResult = [p \in Procs |-> "none"]
    /\ effects = [p \in Procs |-> {}]
    /\ returned = NoReturn

\* ----------------------------------------------------------- handler steps
ClearLocals(p) ==
    /\ audioPath' = [audioPath EXCEPT ![p] = <<>>]
    /\ responseDict' = [responseDict EXCEPT ![p] = NoResponse]
    /\ deliberationData' = [deliberationData EXCEPT ![p] = NoOntology]

\* The handler returns a response with this status code and ends; errorWrite
\* tells what became of its ERROR write.
Respond(p, code, error, errorWrite) ==
    /\ pc' = [pc EXCEPT ![p] = "idle"]
    /\ returned' = [proc |-> p, code |-> code, error |-> error,
                    errorWrite |-> errorWrite,
                    roundId |-> roundId[p], effects |-> effects[p],
                    providerResult |-> providerResult[p]]
    /\ outcome' = NoOutcome
    /\ roundId' = [roundId EXCEPT ![p] = 0]
    /\ bodyUsed' = [bodyUsed EXCEPT ![p] = FALSE]
    /\ providerResult' = [providerResult EXCEPT ![p] = "none"]
    /\ effects' = [effects EXCEPT ![p] = {}]
    /\ ClearLocals(p)

\* The responses of the catch blocks carry 'Transcription failed' and the
\* message of the error that was caught; a 200 carries no error field.
Return(p, code, errorWrite) ==
    Respond(p, code, IF code = "500" THEN "Transcription failed" ELSE "none",
            errorWrite)

\* An exception inside the try block: control passes to the catch block.
Throw(p) ==
    /\ pc' = [pc EXCEPT ![p] = "catch"]
    /\ ClearLocals(p)

Goto(p, label) == pc' = [pc EXCEPT ![p] = label]

\* The step returns no response, and it is no registry operation.
Silent == returned' = NoReturn /\ outcome' = NoOutcome

Did(p, what) == effects' = [effects EXCEPT ![p] = @ \cup {what}]

\* The kind of a provider response, read off the response itself.
ResponseKind(r) ==
    IF r.error THEN "error"
    ELSE IF r.result = <<>> THEN "null"
    ELSE IF r.result[1].results # "object" THEN "noResults"
    ELSE "ok"

\* The provider answers (or the call rejects): the response is checked,
\* converted, validated and handed to the ontology builder. The same lines in
\* both routes.
ProviderReturn(p) ==
    \/ /\ providerResult' = [providerResult EXCEPT ![p] = "threw"]
       /\ Throw(p)
       /\ UNCHANGED <<effects, roundId, bodyUsed>>
    \/ \E r \in ProviderResponses :
         /\ providerResult' = [providerResult EXCEPT ![p] = ResponseKind(r)]
         /\ IF r.error \/ r.result = <<>>
            THEN /\ Throw(p)
                 /\ UNCHANGED <<effects, roundId, bodyUsed>>
            ELSE LET dict == JsonRoundTrip(r.result[1])
                     data == createDeliberationOntology(dict)
                 IN  IF LacksResults(dict)
                     THEN /\ Throw(p)
                          /\ UNCHANGED <<effects, roundId, bodyUsed>>
                     ELSE IF ~data.ok
                     THEN /\ Throw(p)
                          /\ Did(p, "built")
                          /\ UNCHANGED <<roundId, bodyUsed>>
                     ELSE /\ Goto(p, "saveRaw")
                          /\ Did(p, "built")
                          /\ responseDict' = [responseDict EXCEPT ![p] = dict]
                          /\ deliberationData' = [deliberationData EXCEPT ![p] = data]
                          /\ UNCHANGED <<roundId, audioPath, bodyUsed>>

\* saveTranscription, first write: the raw response.
SaveRaw(p) ==
    \E ok \in BOOLEAN :
      IF ok
      THEN /\ rawFile' = [rawFile EXCEPT ![roundId[p]] = <<responseDict[p]>>]
           /\ Did(p, "raw")
           /\ Goto(p, "saveDeliberation")
           /\ UNCHANGED locals
      ELSE /\ Throw(p)
           /\ UNCHANGED <<rawFile, effects, roundId, bodyUsed>>

\* Mutant: a failed write of the ontology is swallowed and the handler goes on.
SaveDeliberationSwallowed(p) ==
    \E ok \in BOOLEAN :
      /\ deliberationFile' =
           [deliberationFile EXCEPT ![roundId[p]] =
              IF ok THEN <<deliberationData[p]>> ELSE @]
      /\ effects' = [effects EXCEPT ![p] = IF ok THEN @ \cup {"deliberation"} ELSE @]
      /\ Goto(p, "complete")
      /\ UNCHANGED locals

\* saveTranscription, second write: the ontology.
SaveDeliberation(p) ==
    \E ok \in BOOLEAN :
      IF ok
      THEN /\ deliberationFile' =
                [deliberationFile EXCEPT ![roundId[p]] = <<deliberationData[p]>>]
           /\ Did(p, "deliberation")
           /\ Goto(p, "complete")
           /\ UNCHANGED locals
      ELSE /\ Throw(p)
           /\ UNCHANGED <<deliberationFile, effects, roundId, bodyUsed>>

\* --------------------------------- POST /api/rounds/{roundId}/transcribe
\* Mutant: a trigger for a round id that does not exist leaves a record in
\* ERROR behind.
TriggerGetRoundLeavesRecord(p) ==
    /\ pc[p] = "idle"
    /\ \E id \in RoundIds :
         IF getRound(rounds, id) = <<>>
         THEN /\ roundId' = [roundId EXCEPT ![p] = 0]
              /\ returned' = [NoReturn EXCEPT !.proc = p, !.code = "404",
                                           !.error = "Round not found",
                                           !.roundId = id]
              /\ outcome' = NoOutcome
              /\ rounds' = [i \in DOMAIN rounds \cup {id} |->
                               IF i = id THEN newRound("ERROR") ELSE rounds[i]]
              /\ UNCHANGED <<pc, audioPath, responseDict, deliberationData, bodyUsed,
                             history>>
         ELSE /\ Goto(p, "checkAudio")
              /\ roundId' = [roundId EXCEPT ![p] = id]
              /\ Silent
              /\ UNCHANGED <<rounds, audioPath, responseDict, deliberationData,
                             bodyUsed, history>>
    /\ UNCHANGED <<files, outside>>

\* getRound; 404 when there is no such round.
TriggerGetRound(p) ==
    /\ pc[p] = "idle"
    /\ \E id \in RoundIds :
         IF getRound(rounds, id) = <<>>
         THEN /\ roundId' = [roundId EXCEPT ![p] = 0]
              /\ returned' = [NoReturn EXCEPT !.proc = p, !.code = "404",
                                           !.error = "Round not found",
                                           !.roundId = id]
              /\ outcome' = NoOutcome
              /\ UNCHANGED <<pc, audioPath, responseDict, deliberationData, bodyUsed,
                             history>>
         ELSE /\ Goto(p, "checkAudio")
              /\ roundId' = [roundId EXCEPT ![p] = id]
              /\ Silent
              /\ UNCHANGED <<audioPath, responseDict, deliberationData, bodyUsed,
                             history>>
    /\ UNCHANGED globals

\* Mutant: a round without audio is put in ERROR before the 404.
TriggerCheckAudioMarksError(p) ==
    /\ pc[p] = "checkAudio"
    /\ LET found == audioFileExists(audioFiles, roundId[p])
       IN  IF found = <<>>
           THEN /\ Respond(p, "404", "Audio file not found", "none")
                /\ rounds' = updateRound(rounds, roundId[p], [status |-> "ERROR"])
           ELSE /\ Goto(p, "setProcessing")
                /\ audioPath' = [audioPath EXCEPT ![p] = found]
                /\ Silent
                /\ UNCHANGED <<rounds, roundId, responseDict, deliberationData,
                               bodyUsed, history>>
    /\ UNCHANGED <<files, outside>>

\* audioFileExists; 404 when the round has no audio artifact.
TriggerCheckAudio(p) ==
    /\ pc[p] = "checkAudio"
    /\ LET found == audioFileExists(audioFiles, roundId[p])
       IN  IF found = <<>>
           THEN Respond(p, "404", "Audio file not found", "none")
           ELSE /\ Goto(p, "setProcessing")
                /\ audioPath' = [audioPath EXCEPT ![p] = found]
                /\ Silent
                /\ UNCHANGED <<roundId, responseDict, deliberationData, bodyUsed,
                               history>>
    /\ UNCHANGED globals

\* updateRound(roundId, {status: PROCESSING}), whatever the status is.
TriggerSetProcessing(p) ==
    /\ pc[p] = "setProcessing"
    /\ \E ok \in BOOLEAN :
         IF ok /\ roundId[p] \in DOMAIN rounds
         THEN /\ rounds' = updateRound(rounds, roundId[p], [status |-> "PROCESSING"])
              /\ Did(p, "processing")
              /\ Goto(p, "readAudio")
              /\ UNCHANGED locals
         ELSE /\ Throw(p)
              /\ UNCHANGED <<rounds, effects, roundId, bodyUsed>>
    /\ Silent
    /\ UNCHANGED <<files, outside, providerResult>>

\* The audio is read, the API key is checked and the provider is called; the
\* handler is then suspended on the provider.
TriggerReadAudio(p) ==
    /\ pc[p] = "readAudio"
    /\ \E ok \in BOOLEAN :
         IF ok /\ audioPath[p][1] \in audioFiles[roundId[p]] /\ apiKey
         THEN /\ Goto(p, "provider")
              /\ Did(p, "provider")
              /\ UNCHANGED locals
         ELSE /\ Throw(p)
              /\ UNCHANGED <<effects, roundId, bodyUsed>>
    /\ Silent
    /\ UNCHANGED <<globals, providerResult>>

TriggerProviderReturn(p) ==
    /\ pc[p] = "provider"
    /\ ProviderReturn(p)
    /\ Silent
    /\ UNCHANGED globals

\* maxDuration: the provider has not answered when the route's five minutes
\* are over. The platform ends the invocation where it is suspended, and no
\* further line of the handler runs.
TriggerTimeout(p) ==
    /\ pc[p] = "provider"
    /\ Return(p, "killed", "none")
    /\ UNCHANGED globals

TriggerSaveRaw(p) ==
    /\ pc[p] = "saveRaw"
    /\ SaveRaw(p)
    /\ Silent
    /\ UNCHANGED <<rounds, audioFiles, deliberationFile, outside, providerResult>>

TriggerSaveDeliberation(p) ==
    /\ pc[p] = "saveDeliberation"
    /\ SaveDeliberation(p)
    /\ Silent
    /\ UNCHANGED <<rounds, audioFiles, rawFile, outside, providerResult>>

\* updateRound with COMPLETED and the ontology's statistics, then the 200
\* response.
TriggerComplete(p) ==
    /\ pc[p] = "complete"
    /\ \E ok \in BOOLEAN :
         IF ok /\ roundId[p] \in DOMAIN rounds
         THEN /\ rounds' = updateRound(rounds, roundId[p],
                   [status |-> "COMPLETED",
                    audio_file |-> audioPath[p],
                    transcription_file |-> <<"deliberation">>,
                    duration_seconds |-> <<deliberationData[p].statistics.duration_seconds>>,
                    speaker_count |-> <<deliberationData[p].statistics.total_speakers>>])
              /\ Return(p, "200", "none")
         ELSE /\ Throw(p)
              /\ Silent
              /\ UNCHANGED <<rounds, roundId, bodyUsed, history>>
    /\ UNCHANGED <<files, outside>>

\* Mutant: the catch block returns the failure without the ERROR write.
TriggerCatchNoWrite(p) ==
    /\ pc[p] = "catch"
    /\ Return(p, "500", "none")
    /\ UNCHANGED globals

\* Mutant: the ERROR write resets the round record's audio reference too.
TriggerCatchClearsAudio(p) ==
    /\ pc[p] = "catch"
    /\ \E ok \in BOOLEAN :
         IF ok /\ roundId[p] \in DOMAIN rounds
         THEN /\ rounds' = updateRound(rounds, roundId[p],
                               [status |-> "ERROR", audio_file |-> <<>>])
              /\ Return(p, "500", "ok")
         ELSE /\ Return(p, "500", "failed")
              /\ UNCHANGED rounds
    /\ UNCHANGED <<files, outside>>

\* Mutant: a failure of the ERROR write escapes the catch block, and the
\* request ends with that failure instead of the 500 response.
TriggerCatchRaisesSecondary(p) ==
    /\ pc[p] = "catch"
    /\ \E ok \in BOOLEAN :
         IF ok /\ roundId[p] \in DOMAIN rounds
         THEN /\ rounds' = updateRound(rounds, roundId[p], [status |-> "ERROR"])
              /\ Return(p, "500", "ok")
         ELSE /\ Respond(p, "unhandled", "Failed to update round status", "failed")
              /\ UNCHANGED rounds
    /\ UNCHANGED <<files, outside>>

\* Mutant: the catch block also discards the sessions of the failed round.
TriggerCatchDropsSession(p) ==
    /\ pc[p] = "catch"
    /\ \E ok \in BOOLEAN :
         IF ok /\ roundId[p] \in DOMAIN rounds
         THEN /\ rounds' = updateRound(rounds, roundId[p], [status |-> "ERROR"])
              /\ Return(p, "500", "ok")
         ELSE /\ Return(p, "500", "failed")
              /\ UNCHANGED rounds
    /\ sessions' = {s \in sessions : s.id # roundId[p]}
    /\ UNCHANGED <<files, apiKey, audioData, reported, storage, transcript,
                   ontology, recorder>>

\* The catch block: updateRound(roundId, {status: ERROR}) is tried, its own
\* failure is logged only, and the 500 response is returned.
TriggerCatch(p) ==
    /\ pc[p] = "catch"
    /\ \E ok \in BOOLEAN :
         IF ok /\ roundId[p] \in DOMAIN rounds
         THEN /\ rounds' = updateRound(rounds, roundId[p], [status |-> "ERROR"])
              /\ Return(p, "500", "ok")
         ELSE /\ Return(p, "500", "failed")
              /\ UNCHANGED rounds
    /\ UNCHANGED <<files, outside>>

TriggerStep(p) ==
    \/ TriggerGetRound(p)
    \/ TriggerCheckAudio(p)
    \/ TriggerSetProcessing(p)
    \/ TriggerReadAudio(p)
    \/ TriggerProviderReturn(p)
    \/ TriggerTimeout(p)
    \/ TriggerSaveRaw(p)
    \/ TriggerSaveDeliberation(p)
    \/ TriggerComplete(p)
    \/ TriggerCatch(p)

TriggerNext == \E p \in Triggers : TriggerStep(p)

\* ------------------------------------------------- POST /api/transcribe
\* The bodies a request can carry: none, one that is not a form, or a form
\* with or without the audio file and the round id.
UploadBodies ==
    [kind : {"none", "malformed"}, audio : {FALSE}, roundId : {0}]
      \cup [kind : {"form"}, audio : BOOLEAN, roundId : {0} \cup RoundIds]

\* request.formData() reads the body to its end, so the body is used whenever
\* there is one; 400 when the audio file or the round id is missing.
\* The fields formData() yielded, as the request's history has them.
FormFields(body) ==
    {"form"} \cup (IF body.audio THEN {"audio"} ELSE {})
             \cup (IF body.roundId # 0 THEN {"roundId"} ELSE {})

\* The 400 response of a form without the audio file or the round id.
Reject(p, body, error) ==
    /\ returned' = [NoReturn EXCEPT !.proc = p, !.code = "400", !.error = error,
                                    !.effects = FormFields(body)]
    /\ outcome' = NoOutcome
    /\ UNCHANGED <<pc, locals, history>>

\* Mutant: only the audio file is looked for before the PROCESSING write.
UploadFormDataAudioOnly(p) ==
    /\ pc[p] = "idle"
    /\ \E body \in UploadBodies :
         IF body.kind # "form"
         THEN /\ Throw(p)
              /\ bodyUsed' = [bodyUsed EXCEPT ![p] = (body.kind = "malformed")]
              /\ Silent
              /\ UNCHANGED <<roundId, history>>
         ELSE IF ~body.audio
         THEN Reject(p, body, "No audio file provided")
         ELSE /\ Goto(p, "setProcessing")
              /\ bodyUsed' = [bodyUsed EXCEPT ![p] = TRUE]
              /\ roundId' = [roundId EXCEPT ![p] = body.roundId]
              /\ effects' = [effects EXCEPT ![p] = FormFields(body)]
              /\ Silent
              /\ UNCHANGED <<audioPath, responseDict, deliberationData, providerResult>>
    /\ UNCHANGED globals

UploadFormData(p) ==
    /\ pc[p] = "idle"
    /\ \E body \in UploadBodies :
         IF body.kind # "form"
         THEN /\ Throw(p)
              /\ bodyUsed' = [bodyUsed EXCEPT ![p] = (body.kind = "malformed")]
              /\ Silent
              /\ UNCHANGED <<roundId, history>>
         ELSE IF ~body.audio
         THEN Reject(p, body, "No audio file provided")
         ELSE IF body.roundId = 0
         THEN Reject(p, body, "Round ID is required")
         ELSE /\ Goto(p, "setProcessing")
              /\ bodyUsed' = [bodyUsed EXCEPT ![p] = TRUE]
              /\ roundId' = [roundId EXCEPT ![p] = body.roundId]
              /\ effects' = [effects EXCEPT ![p] = FormFields(body)]
              /\ Silent
              /\ UNCHANGED <<audioPath, responseDict, deliberationData, providerResult>>
    /\ UNCHANGED globals

\* updateRound(roundId, {status: PROCESSING}); then the API key is checked, the
\* file is converted and the provider is called.
UploadSetProcessing(p) ==
    /\ pc[p] = "setProcessing"
    /\ \E ok \in BOOLEAN :
         IF ok /\ roundId[p] \in DOMAIN rounds
         THEN /\ rounds' = updateRound(rounds, roundId[p], [status |-> "PROCESSING"])
              /\ IF apiKey
                 THEN /\ Goto(p, "provider")
                      /\ effects' = [effects EXCEPT ![p] = @ \cup {"processing", "provider"}]
                      /\ UNCHANGED locals
                 ELSE /\ Throw(p)
                      /\ Did(p, "processing")
                      /\ UNCHANGED <<roundId, bodyUsed>>
         ELSE /\ Throw(p)
              /\ UNCHANGED <<rounds, effects, roundId, bodyUsed>>
    /\ Silent
    /\ UNCHANGED <<files, outside, providerResult>>

UploadProviderReturn(p) ==
    /\ pc[p] = "provider"
    /\ ProviderReturn(p)
    /\ Silent
    /\ UNCHANGED globals

\* maxDuration, as in the round route.
UploadTimeout(p) ==
    /\ pc[p] = "provider"
    /\ Return(p, "killed", "none")
    /\ UNCHANGED globals

UploadSaveRaw(p) ==
    /\ pc[p] = "saveRaw"
    /\ SaveRaw(p)
    /\ Silent
    /\ UNCHANGED <<rounds, audioFiles, deliberationFile, outside, providerResult>>

UploadSaveDeliberation(p) ==
    /\ pc[p] = "saveDeliberation"
    /\ SaveDeliberation(p)
    /\ Silent
    /\ UNCHANGED <<rounds, audioFiles, rawFile, outside, providerResult>>

\* updateRound with COMPLETED and the statistics (no audio_file here), then 200.
UploadComplete(p) ==
    /\ pc[p] = "complete"
    /\ \E ok \in BOOLEAN :
         IF ok /\ roundId[p] \in DOMAIN rounds
         THEN /\ rounds' = updateRound(rounds, roundId[p],
                   [status |-> "COMPLETED",
                    transcription_file |-> <<"deliberation">>,
                    duration_seconds |-> <<deliberationData[p].statistics.duration_seconds>>,
                    speaker_count |-> <<deliberationData[p].statistics.total_speakers>>])
              /\ Return(p, "200", "none")
         ELSE /\ Throw(p)
              /\ Silent
              /\ UNCHANGED <<rounds, roundId, bodyUsed, history>>
    /\ UNCHANGED <<files, outside>>

\* The catch block reads the round id again, from request.clone().formData().
\* clone() throws a TypeError once the body has been used, and a request with
\* no body has no form to read: either way the inner catch logs it, and the
\* ERROR write is reached only with an unused body that yields a round id.
UploadCatch(p) ==
    /\ pc[p] = "catch"
    /\ \E ok \in BOOLEAN :
         IF ~bodyUsed[p] /\ roundId[p] # 0
         THEN IF ok /\ roundId[p] \in DOMAIN rounds
              THEN /\ rounds' = updateRound(rounds, roundId[p], [status |-> "ERROR"])
                   /\ Return(p, "500", "ok")
              ELSE /\ Return(p, "500", "failed")
                   /\ UNCHANGED rounds
         ELSE /\ Return(p, "500", "none")
              /\ UNCHANGED rounds
    /\ UNCHANGED <<files, outside>>

UploadNext ==
    \E p \in Uploaders :
        \/ UploadFormData(p)
        \/ UploadSetProcessing(p)
        \/ UploadProviderReturn(p)
        \/ UploadTimeout(p)
        \/ UploadSaveRaw(p)
        \/ UploadSaveDeliberation(p)
        \/ UploadComplete(p)
        \/ UploadCatch(p)

\* -------------------------------------------------------- session registry
\* A registry operation returns no HTTP response and is no step of a request.
RegistryFrame ==
    /\ returned' = NoReturn
    /\ UNCHANGED <<rawFile, deliberationFile, apiKey, storage, transcript,
                   ontology, recorder, pc, locals, history>>

Outcome(op, id, error) == [NoOutcome EXCEPT !.op = op, !.id = id, !.error = error]

\* saveAudioFile(roundId, buffer, extension): the buffer, whatever its length,
\* is written to {roundId}.{extension}.
saveAudioFile(id, buffer, extension) ==
    /\ audioFiles' = [audioFiles EXCEPT ![id] = @ \cup {extension}]
    /\ audioData' = [audioData EXCEPT ![id][extension] = <<buffer>>]

\* Mutant: open(id) does not look for an open session.
OpenUnchecked(id) ==
    /\ sessions' = {s \in sessions : s.id # id \/ s.state = "OPEN"}
                       \cup {newSession(id)}
    /\ rounds' = IF id \in DOMAIN rounds /\ rounds[id].status = "CREATED"
                 THEN updateRound(rounds, id, [status |-> "RECORDING"])
                 ELSE rounds
    /\ reported' = [reported EXCEPT ![id] = 0]
    /\ outcome' = Outcome("open", id, "none")
    /\ UNCHANGED <<audioFiles, audioData>>
    /\ RegistryFrame

\* open(id): ConflictError when a session is open for id; else a new OPEN
\* session takes the place of a closed one, and a CREATED round becomes
\* RECORDING.
Open(id) ==
    /\ IF \E s \in OpenSessions(sessions) : s.id = id
       THEN /\ outcome' = Outcome("open", id, "ConflictError")
            /\ UNCHANGED <<sessions, rounds, reported>>
       ELSE /\ sessions' = {s \in sessions : s.id # id} \cup {newSession(id)}
            /\ rounds' = IF id \in DOMAIN rounds /\ rounds[id].status = "CREATED"
                         THEN updateRound(rounds, id, [status |-> "RECORDING"])
                         ELSE rounds
            /\ reported' = [reported EXCEPT ![id] = 0]
            /\ outcome' = Outcome("open", id, "none")
    /\ UNCHANGED <<audioFiles, audioData>>
    /\ RegistryFrame

\* ingestChunk(id, bytes): NotFoundError without an open session,
\* CapacityError beyond the ceiling; else the chunk is appended and counted
\* in one synchronous step.
IngestChunk(id, bytes) ==
    /\ LET mine == {s \in OpenSessions(sessions) : s.id = id}
       IN  IF mine = {}
           THEN /\ outcome' = Outcome("ingestChunk", id, "NotFoundError")
                /\ UNCHANGED sessions
           ELSE LET s == CHOOSE x \in mine : TRUE
                IN  IF s.byteCount + Len(bytes) > MaxSessionBytes
                    THEN /\ outcome' = Outcome("ingestChunk", id, "CapacityError")
                         /\ UNCHANGED sessions
                    ELSE /\ Len(s.chunks) < MaxChunks
                         /\ sessions' = (sessions \ {s}) \cup
                               {[s EXCEPT !.chunks = Append(@, bytes),
                                          !.byteCount = @ + Len(bytes)]}
                         /\ outcome' = Outcome("ingestChunk", id, "none")
    /\ UNCHANGED <<rounds, audioFiles, audioData, reported>>
    /\ RegistryFrame

\* Mutant: close(id) finalizes a closed session over again.
CloseFinalizesAgain(id) ==
    /\ LET mine == {s \in sessions : s.id = id}
       IN  IF mine = {}
           THEN /\ outcome' = Outcome("close", id, "NotFoundError")
                /\ UNCHANGED <<sessions, audioFiles, audioData>>
           ELSE LET s == CHOOSE x \in mine :
                            x.state = "OPEN" \/ \A y \in mine : y.state = "CLOSED"
                    Closed(result) ==
                        /\ sessions' = (sessions \ {s}) \cup
                              {[s EXCEPT !.state = "CLOSED", !.chunks = <<>>,
                                         !.byteCount = 0,
                                         !.finalizerRuns = @ + 1,
                                         !.result = <<result>>]}
                        /\ outcome' = [Outcome("close", id, result.error)
                                          EXCEPT !.result = <<result>>,
                                                 !.finalized = TRUE]
                IN  IF s.byteCount = 0
                    THEN /\ Closed(Failed("EmptyAudioError"))
                         /\ UNCHANGED <<audioFiles, audioData>>
                    ELSE \E ok \in BOOLEAN :
                           IF ok
                           THEN /\ saveAudioFile(id, assemble(s.chunks), "webm")
                                /\ Closed(Persisted("webm"))
                           ELSE /\ Closed(Failed("Failed to save audio file"))
                                /\ UNCHANGED <<audioFiles, audioData>>
    /\ UNCHANGED <<rounds, reported>>
    /\ RegistryFrame

\* Mutant: close(id) persists whatever was assembled, empty or not.
ClosePersistsEmpty(id) ==
    /\ LET mine == {s \in sessions : s.id = id}
       IN  IF mine = {}
           THEN /\ outcome' = Outcome("close", id, "NotFoundError")
                /\ UNCHANGED <<sessions, audioFiles, audioData>>
           ELSE LET s == CHOOSE x \in mine :
                            x.state = "OPEN" \/ \A y \in mine : y.state = "CLOSED"
                    Closed(result) ==
                        /\ sessions' = (sessions \ {s}) \cup
                              {[s EXCEPT !.state = "CLOSED", !.chunks = <<>>,
                                         !.byteCount = 0,
                                         !.finalizerRuns = @ + 1,
                                         !.result = <<result>>]}
                        /\ outcome' = [Outcome("close", id, result.error)
                                          EXCEPT !.result = <<result>>,
                                                 !.finalized = TRUE]
                IN  IF s.state = "CLOSED"
                    THEN /\ outcome' = [Outcome("close", id, s.result[1].error)
                                          EXCEPT !.result = s.result]
                         /\ UNCHANGED <<sessions, audioFiles, audioData>>
                    ELSE \E ok \in BOOLEAN :
                           IF ok
                           THEN /\ saveAudioFile(id, assemble(s.chunks), "webm")
                                /\ Closed(Persisted("webm"))
                           ELSE /\ Closed(Failed("Failed to save audio file"))
                                /\ UNCHANGED <<audioFiles, audioData>>
    /\ UNCHANGED <<rounds, reported>>
    /\ RegistryFrame

\* close(id): the open session is marked CLOSED and finalized: its chunks are
\* assembled and, unless no byte was received, persisted as {id}.webm. The
\* result is kept, and a closed session answers with it.
Close(id) ==
    /\ LET mine == {s \in sessions : s.id = id}
       IN  IF mine = {}
           THEN /\ outcome' = Outcome("close", id, "NotFoundError")
                /\ UNCHANGED <<sessions, audioFiles, audioData>>
           ELSE LET s == CHOOSE x \in mine :
                            x.state = "OPEN" \/ \A y \in mine : y.state = "CLOSED"
                    Closed(result) ==
                        /\ sessions' = (sessions \ {s}) \cup
                              {[s EXCEPT !.state = "CLOSED", !.chunks = <<>>,
                                         !.byteCount = 0,
                                         !.finalizerRuns = @ + 1,
                                         !.result = <<result>>]}
                        /\ outcome' = [Outcome("close", id, result.error)
                                          EXCEPT !.result = <<result>>,
                                                 !.finalized = TRUE]
                IN  IF s.state = "CLOSED"
                    THEN /\ outcome' = [Outcome("close", id, s.result[1].error)
                                          EXCEPT !.result = s.result]
                         /\ UNCHANGED <<sessions, audioFiles, audioData>>
                    ELSE IF s.byteCount = 0
                    THEN /\ Closed(Failed("EmptyAudioError"))
                         /\ UNCHANGED <<audioFiles, audioData>>
                    ELSE \E ok \in BOOLEAN :
                           IF ok
                           THEN /\ saveAudioFile(id, assemble(s.chunks), "webm")
                                /\ Closed(Persisted("webm"))
                           ELSE /\ Closed(Failed("Failed to save audio file"))
                                /\ UNCHANGED <<audioFiles, audioData>>
    /\ UNCHANGED <<rounds, reported>>
    /\ RegistryFrame

\* Mutant: the stats read starts every open session's byte count afresh.
StatsGetDrains ==
    /\ \E ok \in BOOLEAN :
         IF ok
         THEN LET stats == getSessionStats(sessions)
              IN  /\ outcome' = [Outcome("stats", 0, "none") EXCEPT !.stats = <<stats>>]
                  /\ reported' = [id \in RoundIds |->
                        IF \E r \in stats.sessions : r.id = id
                        THEN (CHOOSE r \in stats.sessions : r.id = id).byteCount
                        ELSE reported[id]]
                  /\ sessions' = {IF s.state = "OPEN" THEN [s EXCEPT !.byteCount = 0]
                                   ELSE s : s \in sessions}
         ELSE /\ outcome' = Outcome("stats", 0, "Failed to fetch stream stats")
              /\ UNCHANGED <<reported, sessions>>
    /\ UNCHANGED <<rounds, audioFiles, audioData>>
    /\ RegistryFrame

\* GET of the stats route: getSessionStats() as JSON, 500 when it throws.
StatsGet ==
    /\ \E ok \in BOOLEAN :
         IF ok
         THEN LET stats == getSessionStats(sessions)
              IN  /\ outcome' = [Outcome("stats", 0, "none") EXCEPT !.stats = <<stats>>]
                  /\ reported' = [id \in RoundIds |->
                        IF \E r \in stats.sessions : r.id = id
                        THEN (CHOOSE r \in stats.sessions : r.id = id).byteCount
                        ELSE reported[id]]
         ELSE /\ outcome' = Outcome("stats", 0, "Failed to fetch stream stats")
              /\ UNCHANGED reported
    /\ UNCHANGED <<sessions, rounds, audioFiles, audioData>>
    /\ RegistryFrame

\* ------------------------------------------------------------ file storage
\* A call of a storage function from outside the two routes.
StorageFrame ==
    /\ returned' = NoReturn
    /\ UNCHANGED <<rounds, apiKey, registry, transcript, ontology, recorder, pc,
                   locals, history>>

\* saveAudioFile(roundId, buffer, extension) called on its own: the reference
\* it returns names the file it wrote; it rethrows a failed write.
StorageSaveAudio ==
    /\ \E id \in RoundIds : \E extension \in FileExtensions : \E ok \in BOOLEAN :
         IF ok
         THEN /\ saveAudioFile(id, InitialAudio, extension)
              /\ outcome' = [Outcome("saveAudioFile", id, "none")
                                EXCEPT !.ref = <<extension>>]
         ELSE /\ outcome' = Outcome("saveAudioFile", id, "Failed to save audio file")
              /\ UNCHANGED <<audioFiles, audioData>>
    /\ UNCHANGED <<rawFile, deliberationFile, storage>>
    /\ StorageFrame

\* audioFileExists(roundId) called on its own.
StorageAudioExists ==
    /\ \E id \in RoundIds :
         outcome' = [Outcome("audioFileExists", id, "none")
                       EXCEPT !.ref = audioFileExists(audioFiles, id)]
    /\ UNCHANGED <<files, audioData, storage>>
    /\ StorageFrame

\* transcriptionExists(roundId): whether the deliberation file is there.
StorageTranscriptionExists ==
    /\ \E id \in RoundIds :
         outcome' = [Outcome("transcriptionExists", id, "none")
                       EXCEPT !.found = (deliberationFile[id] # <<>>)]
    /\ UNCHANGED <<files, audioData, storage>>
    /\ StorageFrame

\* saveTranscription, first write: the raw file. A failed write is rethrown.
StorageSaveRaw ==
    /\ storage.saving = <<>>
    /\ \E id \in RoundIds : \E utts \in UtteranceSamples : \E ok \in BOOLEAN :
         LET raw == [results |-> "object", utterances |-> utts]
         IN  IF ok
             THEN /\ rawFile' = [rawFile EXCEPT ![id] = <<raw>>]
                  /\ storage' = [storage EXCEPT !.saving = <<raw>>, !.saveId = id]
                  /\ outcome' = NoOutcome
             ELSE /\ outcome' = Outcome("saveTranscription", id,
                                        "Failed to save transcription files")
                  /\ UNCHANGED <<rawFile, storage>>
    /\ UNCHANGED <<audioFiles, audioData, deliberationFile>>
    /\ StorageFrame

\* saveTranscription, second write: the deliberation file.
StorageSaveDeliberation ==
    /\ storage.saving # <<>>
    /\ \E ok \in BOOLEAN :
         IF ok
         THEN /\ deliberationFile' =
                    [deliberationFile EXCEPT ![storage.saveId] =
                        <<createDeliberationOntology(storage.saving[1])>>]
              /\ outcome' = Outcome("saveTranscription", storage.saveId, "none")
         ELSE /\ outcome' = Outcome("saveTranscription", storage.saveId,
                                    "Failed to save transcription files")
              /\ UNCHANGED deliberationFile
    /\ storage' = [storage EXCEPT !.saving = <<>>, !.saveId = 0]
    /\ UNCHANGED <<audioFiles, audioData, rawFile>>
    /\ StorageFrame

\* deleteRoundFiles(roundId) is called: the list of files is drawn up.
StorageDeleteBegin ==
    /\ storage.deleting = 0
    /\ \E id \in RoundIds : storage' = [storage EXCEPT !.deleting = 1, !.deleteId = id]
    /\ outcome' = NoOutcome
    /\ UNCHANGED <<files, audioData>>
    /\ StorageFrame

\* deleteRoundFiles: one turn of the loop. The next file is unlinked; a failed
\* unlink, of a missing file or of one that is there, is ignored.
StorageUnlink ==
    /\ storage.deleting > 0
    /\ LET id == storage.deleteId
           file == filesToDelete[storage.deleting]
           last == storage.deleting = Len(filesToDelete)
       IN  /\ \E ok \in BOOLEAN :
                /\ rawFile' = IF ok /\ file = "raw"
                              THEN [rawFile EXCEPT ![id] = <<>>] ELSE rawFile
                /\ deliberationFile' = IF ok /\ file = "deliberation"
                                       THEN [deliberationFile EXCEPT ![id] = <<>>]
                                       ELSE deliberationFile
                /\ audioFiles' = IF ok /\ file \in AudioExtensions
                                 THEN [audioFiles EXCEPT ![id] = @ \ {file}]
                                 ELSE audioFiles
                /\ audioData' = IF ok /\ file \in AudioExtensions
                                THEN [audioData EXCEPT ![id][file] = <<>>]
                                ELSE audioData
           /\ storage' = IF last THEN [storage EXCEPT !.deleting = 0, !.deleteId = 0]
                         ELSE [storage EXCEPT !.deleting = @ + 1]
           /\ outcome' = IF last THEN Outcome("deleteRoundFiles", id, "none")
                         ELSE NoOutcome
    /\ StorageFrame

StorageNext ==
    \/ StorageSaveAudio
    \/ StorageAudioExists
    \/ StorageTranscriptionExists
    \/ StorageSaveRaw
    \/ StorageSaveDeliberation
    \/ StorageDeleteBegin
    \/ StorageUnlink

\* ------------------------------------------------------- ontology builder
BuilderFrame ==
    /\ Silent
    /\ UNCHANGED <<rounds, files, apiKey, audioData, registry, storage, recorder,
                   pc, locals, history>>

\* A raw transcript arrives where there was none.
BuilderReceive ==
    /\ transcript = NoResponse
    /\ ontology = <<>>
    /\ \E raw \in Transcripts : transcript' = raw
    /\ ontology' = <<>>
    /\ BuilderFrame

\* createDeliberationOntology is applied to it.
BuilderBuild ==
    /\ ontology = <<>>
    /\ ontology' = <<createDeliberationOntology(transcript)>>
    /\ UNCHANGED transcript
    /\ BuilderFrame

BuilderNext == BuilderReceive \/ BuilderBuild

(***************************************************************************)
(* The AudioRecorder component.  Its handlers run to completion; the       *)
(* permission request of startRecording and the events of a media recorder *)
(* arrive as steps of their own.                                           *)
(***************************************************************************)

\* The clock advances in steps of half a second.
TickMs == 500

RecorderFrame ==
    /\ Silent
    /\ UNCHANGED <<rounds, files, apiKey, audioData, registry, storage,
                   transcript, ontology, pc, locals, history>>

\* A state setter: React drops the update of an unmounted component.
SetState(next, current, value) == next = IF mounted THEN value ELSE current

\* new MediaRecorder(stream) after start(): onstop closes over the duration
\* of the render whose startRecording is running.
NewRecorder(closed) ==
    [state |-> "recording", stopping |-> FALSE, live |-> TRUE,
     finalDuration |-> closed, emitted |-> <<>>, events |-> 0, shown |-> <<>>]

RemoveAt(seq, i) == SubSeq(seq, 1, i - 1) \o SubSeq(seq, i + 1, Len(seq))

\* startTimer: the interval timerRef held, if any, keeps running.
startTimer ==
    /\ startTimeRef' = now - pausedTimeRef
    /\ timerRef' = TRUE
    /\ orphanTimers' = IF timerRef THEN orphanTimers + 1 ELSE orphanTimers

stopTimer ==
    /\ timerRef' = FALSE
    /\ UNCHANGED orphanTimers

\* MediaRecorder.stop(): inactive at once, the stop event follows.
Stopped(r) ==
    [mediaRecorders EXCEPT ![r].state = "inactive", ![r].stopping = TRUE,
                           ![r].shown = <<duration>>]

\* The Start button, rendered while not recording: startRecording runs up
\* to its await.
ClickStart ==
    /\ mounted
    /\ ~isRecording
    /\ Len(mediaRecorders) + Len(pendingStarts) < MaxStarts
    /\ pendingStarts' = Append(pendingStarts, duration)
    /\ UNCHANGED <<component, now, mediaRecorders, orphanTimers, completed>>
    /\ RecorderFrame

\* getUserMedia rejects, or the media recorder cannot be constructed.
StartFails ==
    /\ \E i \in DOMAIN pendingStarts : pendingStarts' = RemoveAt(pendingStarts, i)
    /\ UNCHANGED <<component, now, mediaRecorders, orphanTimers, completed>>
    /\ RecorderFrame

\* getUserMedia resolves with a stream: the rest of startRecording.
PermissionGranted ==
    /\ \E i \in DOMAIN pendingStarts :
          /\ mediaRecorders' = Append(mediaRecorders, NewRecorder(pendingStarts[i]))
          /\ pendingStarts' = RemoveAt(pendingStarts, i)
    /\ chunksRef' = <<>>
    /\ mediaRecorderRef' = Len(mediaRecorders) + 1
    /\ SetState(isRecording', isRecording, TRUE)
    /\ SetState(isPaused', isPaused, FALSE)
    /\ startTimer
    /\ UNCHANGED <<duration, pausedTimeRef, mounted, now, completed>>
    /\ RecorderFrame

\* ondataavailable: a chunk with bytes is pushed.
DataAvailable ==
    /\ \E r \in DOMAIN mediaRecorders, size \in {0, 1} :
          LET mr == mediaRecorders[r]
              chunk == <<r, mr.events + 1>>
          IN  /\ mr.state = "recording" \/ mr.stopping
              /\ mr.events < MaxData
              /\ IF size > 0
                 THEN /\ chunksRef' = Append(chunksRef, chunk)
                      /\ mediaRecorders' =
                            [mediaRecorders EXCEPT ![r].events = @ + 1,
                                                   ![r].emitted = Append(@, chunk)]
                 ELSE /\ UNCHANGED chunksRef
                      /\ mediaRecorders' = [mediaRecorders EXCEPT ![r].events = @ + 1]
    /\ UNCHANGED <<isRecording, isPaused, duration, mediaRecorderRef, timerRef,
                   startTimeRef, pausedTimeRef, mounted, now, pendingStarts,
                   orphanTimers, completed>>
    /\ RecorderFrame

\* onstop: the blob of chunksRef and the duration closed over go to
\* onRecordingComplete, the stream's tracks stop, the state is reset.
OnStop ==
    /\ \E r \in DOMAIN mediaRecorders :
          /\ mediaRecorders[r].stopping
          /\ completed' = Append(completed, [recorder |-> r, blob |-> chunksRef,
                                             duration |-> mediaRecorders[r].finalDuration])
          /\ mediaRecorders' = [mediaRecorders EXCEPT ![r].stopping = FALSE,
                                                      ![r].live = FALSE]
    /\ SetState(isRecording', isRecording, FALSE)
    /\ SetState(isPaused', isPaused, FALSE)
    /\ SetState(duration', duration, 0)
    /\ pausedTimeRef' = 0
    /\ chunksRef' = <<>>
    /\ UNCHANGED <<mediaRecorderRef, timerRef, startTimeRef, mounted, now,
                   pendingStarts, orphanTimers>>
    /\ RecorderFrame

\* The Pause button, rendered while recording and not paused.
ClickPause ==
    /\ mounted
    /\ isRecording /\ ~isPaused
    /\ IF mediaRecorderRef # 0 /\ mediaRecorders[mediaRecorderRef].state = "recording"
       THEN /\ mediaRecorders' =
                  [mediaRecorders EXCEPT ![mediaRecorderRef].state = "paused"]
            /\ SetState(isPaused', isPaused, TRUE)
            /\ stopTimer
            /\ pausedTimeRef' = now - startTimeRef
            /\ UNCHANGED <<isRecording, duration, mediaRecorderRef, chunksRef,
                           startTimeRef, mounted, now, pendingStarts, completed>>
       ELSE UNCHANGED recorder
    /\ RecorderFrame

\* The Resume button, rendered while recording and paused.
ClickResume ==
    /\ mounted
    /\ isRecording /\ isPaused
    /\ IF mediaRecorderRef # 0 /\ mediaRecorders[mediaRecorderRef].state = "paused"
       THEN /\ mediaRecorders' =
                  [mediaRecorders EXCEPT ![mediaRecorderRef].state = "recording"]
            /\ SetState(isPaused', isPaused, FALSE)
            /\ startTimer
            /\ UNCHANGED <<isRecording, duration, mediaRecorderRef, chunksRef,
                           pausedTimeRef, mounted, now, pendingStarts, completed>>
       ELSE UNCHANGED recorder
    /\ RecorderFrame

\* The Stop button, rendered while recording.
ClickStop ==
    /\ mounted
    /\ isRecording
    /\ IF mediaRecorderRef # 0 /\ mediaRecorders[mediaRecorderRef].state # "inactive"
       THEN /\ stopTimer
            /\ mediaRecorders' = Stopped(mediaRecorderRef)
            /\ UNCHANGED <<isRecording, isPaused, duration, mediaRecorderRef,
                           chunksRef, startTimeRef, pausedTimeRef, mounted, now,
                           pendingStarts, completed>>
       ELSE UNCHANGED recorder
    /\ RecorderFrame

\* The cleanup of the mount effect.
Unmount ==
    /\ mounted
    /\ mounted' = FALSE
    /\ timerRef' = FALSE
    /\ mediaRecorders' =
          IF mediaRecorderRef # 0 /\ mediaRecorders[mediaRecorderRef].state # "inactive"
          THEN Stopped(mediaRecorderRef)
          ELSE mediaRecorders
    /\ UNCHANGED <<isRecording, isPaused, duration, mediaRecorderRef, chunksRef,
                   startTimeRef, pausedTimeRef, now, pendingStarts, orphanTimers,
                   completed>>
    /\ RecorderFrame

\* Time passes.
Tick ==
    /\ now < MaxTicks * TickMs
    /\ now' = now + TickMs
    /\ UNCHANGED <<component, pendingStarts, mediaRecorders, orphanTimers, completed>>
    /\ RecorderFrame

\* The callback of a running interval.
TimerFires ==
    /\ timerRef \/ orphanTimers > 0
    /\ SetState(duration', duration, (now - startTimeRef) \div 1000)
    /\ UNCHANGED <<isRecording, isPaused, mediaRecorderRef, chunksRef, timerRef,
                   startTimeRef, pausedTimeRef, mounted, browser>>
    /\ RecorderFrame

RecorderNext ==
    \/ ClickStart
    \/ StartFails
    \/ PermissionGranted
    \/ DataAvailable
    \/ OnStop
    \/ ClickPause
    \/ ClickResume
    \/ ClickStop
    \/ Unmount
    \/ Tick
    \/ TimerFires


RegistryNext ==
    \/ \E id \in RoundIds : Open(id)
    \/ \E id \in RoundIds : \E bytes \in Chunks : IngestChunk(id, bytes)
    \/ \E id \in RoundIds : Close(id)
    \/ StatsGet

\* ---------------------------------------------------------- specifications
\* The round route under concurrent requests.
Next == TriggerNext

Spec == Init /\ [][Next]_vars

\* The upload route.
UploadSpec == Init /\ [][UploadNext]_vars

\* The session registry, its finalizer and the stats route.
RegistrySpec == Init /\ [][RegistryNext]_vars

\* Recording and transcription side by side: sessions are opened, fed with
\* one-byte frames and closed while a trigger runs.
SystemNext ==
    \/ TriggerStep(1)
    \/ \E id \in RoundIds : Open(id)
    \/ \E id \in RoundIds :
         \E bytes \in {c \in Chunks : Len(c) = 1} : IngestChunk(id, bytes)
    \/ \E id \in RoundIds : Close(id)

SystemSpec == Init /\ [][SystemNext]_vars

\* The storage functions of files.ts under concurrent callers.
StorageSpec == Init /\ [][StorageNext]_vars

\* The ontology builder on its own.
BuilderSpec == Init /\ [][BuilderNext]_vars

\* The AudioRecorder component alone.
RecorderSpec == Init /\ [][RecorderNext]_vars

\* ------------------------------------------------------------------ claims
StatusOf(id) == rounds[id].status

\* The fields of a round record other than its status.
Frame(rec) ==
    <<rec.audio_file, rec.transcription_file, rec.duration_seconds, rec.speaker_count>>

\* A request is in flight from its PROCESSING write to its final write.
InFlight(p) == "processing" \in effects[p]

\* C1: a trigger that finds its round PROCESSING is rejected: the step that
\* stands where the guard belongs writes no status and starts no provider call.
C1_TriggerWhileProcessingRejected ==
    [][\A p \in Triggers :
         (/\ pc[p] = "setProcessing"
          /\ pc'[p] # pc[p]
          /\ roundId[p] \in DOMAIN rounds
          /\ StatusOf(roundId[p]) = "PROCESSING")
         => /\ rounds' = rounds
            /\ ~InFlight(p)']_vars

\* C2: at most one trigger is in flight for a round id at any time.
C2_OneInFlightPerRound ==
    \A id \in RoundIds :
        Cardinality({p \in Triggers : InFlight(p) /\ roundId[p] = id}) <= 1

\* C3: a trigger that is abandoned because the provider did not answer within
\* the deadline leaves its round in ERROR.
C3_TimeoutEndsInError ==
    (returned.proc \in Triggers /\ returned.code = "killed")
        => StatusOf(returned.roundId) = "ERROR"

\* C4: a trigger that fails after its PROCESSING write returns the failure
\* (500) only after it has tried the ERROR write, and when that write
\* succeeded the round is in ERROR as the trigger returns.
C4_FailureAttemptsErrorWrite ==
    (/\ returned.proc \in Triggers
     /\ "processing" \in returned.effects
     /\ returned.code \notin {"200", "killed"})
    => /\ returned.code = "500"
       /\ returned.errorWrite \in {"ok", "failed"}
       /\ returned.errorWrite = "ok" => StatusOf(returned.roundId) = "ERROR"

C4_Witness ==
    /\ returned.proc \in Triggers
    /\ "processing" \in returned.effects
    /\ returned.code = "500"
    /\ returned.errorWrite = "ok"
    /\ StatusOf(returned.roundId) = "ERROR"

\* C5: an upload transcription that fails after its PROCESSING write returns
\* the failure only after it has tried the ERROR write for the same round.
C5_UploadFailureAttemptsErrorWrite ==
    (/\ returned.proc \in Uploaders
     /\ "processing" \in returned.effects
     /\ returned.code \notin {"200", "killed"})
    => /\ returned.code = "500"
       /\ returned.errorWrite \in {"ok", "failed"}

\* C6: a round in ERROR stays in ERROR.
C6_ErrorIsTerminal ==
    [][\A id \in DOMAIN rounds :
         StatusOf(id) = "ERROR" => rounds'[id].status = "ERROR"]_vars

\* C7: every status change follows a listed edge of the round state machine.
Edges ==
    { <<"CREATED", "RECORDING">>, <<"RECORDING", "PROCESSING">>,
      <<"PROCESSING", "COMPLETED">>, <<"RECORDING", "ERROR">>,
      <<"PROCESSING", "ERROR">> }

C7_StatusChangesFollowEdges ==
    [][\A id \in DOMAIN rounds :
         rounds'[id].status # StatusOf(id)
            => <<StatusOf(id), rounds'[id].status>> \in Edges]_vars

\* C8: a round record is written with COMPLETED only by a trigger that has
\* already written both the raw and the normalized transcript, and the
\* duration and speaker count written with it are the statistics of the
\* ontology that trigger persisted.
C8_CompletedAfterPersist ==
    [][\A id \in DOMAIN rounds :
         (rounds'[id] # rounds[id] /\ rounds'[id].status = "COMPLETED")
         => \E p \in Triggers :
              /\ pc[p] = "complete"
              /\ roundId[p] = id
              /\ {"raw", "deliberation"} \subseteq effects[p]
              /\ returned'.proc = p
              /\ returned'.code = "200"
              /\ rounds'[id].duration_seconds =
                    <<deliberationData[p].statistics.duration_seconds>>
              /\ rounds'[id].speaker_count =
                    <<deliberationData[p].statistics.total_speakers>>]_vars

C8_Witness ==
    /\ returned.proc \in Triggers
    /\ returned.code = "200"
    /\ StatusOf(returned.roundId) = "COMPLETED"
    /\ rounds[returned.roundId].speaker_count = <<2>>
    /\ rounds[returned.roundId].duration_seconds = <<9>>
    /\ rawFile[returned.roundId] # <<>>
    /\ deliberationFile[returned.roundId] # <<>>

\* C9 as stated: after a provider error, a null result or a response without
\* the results container the builder was not invoked, no transcript file was
\* written, and the round is in ERROR when the trigger returns.
BadProviderResult(r) ==
    r.proc \in Triggers /\ r.providerResult \in {"error", "null", "noResults"}

C9_Original ==
    BadProviderResult(returned)
    => /\ returned.effects \cap {"built", "raw", "deliberation"} = {}
       /\ StatusOf(returned.roundId) = "ERROR"

\* C9 as amended: ... the builder was not invoked, no transcript file was
\* written, the ERROR write was tried, and the round is in ERROR when that
\* write succeeded.
C9_BadResponseGoesToError ==
    BadProviderResult(returned)
    => /\ returned.effects \cap {"built", "raw", "deliberation"} = {}
       /\ returned.code = "500"
       /\ returned.errorWrite \in {"ok", "failed"}
       /\ returned.errorWrite = "ok" => StatusOf(returned.roundId) = "ERROR"

C9_Witness ==
    /\ BadProviderResult(returned)
    /\ returned.providerResult = "noResults"
    /\ returned.errorWrite = "ok"
    /\ StatusOf(returned.roundId) = "ERROR"

\* C10: no step of a trigger other than its successful COMPLETED write changes
\* a round's audio reference, transcript reference, duration or speaker
\* count, and no step removes an audio artifact: a trigger that fails,
\* compensating ERROR write included, changes the round's status only.
C10_FailureChangesStatusOnly ==
    [][/\ audioFiles' = audioFiles
       /\ \A id \in DOMAIN rounds :
            Frame(rounds'[id]) # Frame(rounds[id])
               => returned'.code = "200" /\ returned'.roundId = id]_vars

C10_Witness ==
    /\ returned.proc \in Triggers
    /\ returned.code = "500"
    /\ returned.providerResult = "noResults"
    /\ returned.errorWrite = "ok"
    /\ StatusOf(returned.roundId) = "ERROR"
    /\ rounds[returned.roundId].audio_file = <<"webm">>
    /\ rounds[returned.roundId].speaker_count = <<2>>
    /\ "webm" \in audioFiles[returned.roundId]

\* C11: when the ERROR write of the failure path fails itself, the trigger
\* still returns the 500 response of the failure it caught, the failure of the
\* write is not returned, and the stored round records are left as they were
\* last written.
C11_SecondaryFailureSwallowed ==
    [][\A p \in Triggers :
         (pc[p] = "catch" /\ returned'.proc = p /\ returned'.errorWrite = "failed")
         => /\ returned'.code = "500"
            /\ returned'.error = "Transcription failed"
            /\ rounds' = rounds]_vars

C11_Witness ==
    /\ returned.proc \in Triggers
    /\ returned.errorWrite = "failed"
    /\ returned.code = "500"
    /\ "processing" \in returned.effects
    /\ StatusOf(returned.roundId) = "PROCESSING"

\* C12: a trigger for a round id that has no record returns 404 'Round not
\* found' in its first step and has done nothing else: no round record and no
\* file is written, no audio is read and the provider is not called.
C12_MissingRoundNoEffect ==
    [][\A p \in Triggers :
         (pc[p] = "idle" /\ (pc'[p] # "idle" \/ returned'.proc = p))
         => LET id == IF pc'[p] # "idle" THEN roundId'[p] ELSE returned'.roundId
            IN  id \notin DOMAIN rounds
                => /\ pc'[p] = "idle"
                   /\ returned'.proc = p
                   /\ returned'.code = "404"
                   /\ returned'.error = "Round not found"
                   /\ returned'.effects = {}
                   /\ globals' = globals]_vars

C12_Witness ==
    /\ returned.proc \in Triggers
    /\ returned.code = "404"
    /\ returned.error = "Round not found"
    /\ returned.roundId \notin DOMAIN rounds
    /\ returned.effects = {}

\* C13 as stated: the response for a round without audio is of another kind
\* than the not-found response of a missing round.
C13_Original ==
    (returned.proc \in Triggers /\ returned.error = "Audio file not found")
        => returned.code # "404"

\* C13 as amended: a trigger for an existing round without an audio artifact
\* returns a 404 whose message, 'Audio file not found', differs from the
\* 'Round not found' of a missing round; it leaves every round record as it
\* was and does not call the provider.
C13_MissingAudioRejected ==
    [][\A p \in Triggers :
         (/\ pc[p] = "checkAudio"
          /\ pc'[p] # pc[p]
          /\ audioFileExists(audioFiles, roundId[p]) = <<>>)
         => /\ returned'.proc = p
            /\ returned'.code = "404"
            /\ returned'.error = "Audio file not found"
            /\ returned'.error # "Round not found"
            /\ returned'.effects = {}
            /\ pc'[p] = "idle"
            /\ globals' = globals]_vars

C13_Witness ==
    /\ returned.proc \in Triggers
    /\ returned.code = "404"
    /\ returned.error = "Audio file not found"
    /\ returned.roundId \in DOMAIN rounds
    /\ audioFiles[returned.roundId] = {}
    /\ StatusOf(returned.roundId) = "RECORDING"

\* C14: no step of a trigger, whatever its outcome, changes the session
\* registry, and while a trigger is suspended on the provider call every open
\* session with room left can take a further frame.
TriggerActs == \E p \in Triggers : pc'[p] # pc[p] \/ returned'.proc = p

HasRoom(s) == s.byteCount < MaxSessionBytes /\ Len(s.chunks) < MaxChunks

C14_RegistryUntouchedByTrigger ==
    /\ [][TriggerActs => registry' = registry]_vars
    /\ [](\A p \in Triggers : pc[p] = "provider" =>
            \A s \in OpenSessions(sessions) : HasRoom(s) =>
                ENABLED (/\ IngestChunk(s.id, <<"a">>)
                         /\ outcome'.error = "none"
                         /\ pc'[p] = "provider"))

C14_Witness ==
    /\ \E p \in Triggers : pc[p] = "provider"
    /\ outcome.op = "ingestChunk"
    /\ outcome.error = "none"
    /\ \E s \in OpenSessions(sessions) : s.byteCount = 2

\* C15: a stats read changes no session, round or file, and the byte count it
\* reports for an open session is never below the count reported before for
\* that session and is the total length of the first k chunks of the
\* session's buffer, for some whole k.
WholeChunks(s, n) ==
    \E k \in 0..Len(s.chunks) : n = Len(assemble(SubSeq(s.chunks, 1, k)))

C15_StatsReadOnlyMonotonic ==
    [][outcome'.op = "stats" =>
         /\ sessions' = sessions
         /\ <<rounds, files, audioData>>' = <<rounds, files, audioData>>
         /\ outcome'.stats # <<>> =>
              \A r \in outcome'.stats[1].sessions :
                 /\ r.byteCount >= reported[r.id]
                 /\ \E s \in OpenSessions(sessions) :
                       s.id = r.id /\ WholeChunks(s, r.byteCount)]_vars

C15_Witness ==
    /\ outcome.op = "stats"
    /\ outcome.stats # <<>>
    /\ \E r \in outcome.stats[1].sessions : r.byteCount = 3
    /\ \E s \in OpenSessions(sessions) : Len(s.chunks) = 2
    /\ outcome.stats[1].activeSessions = 1

\* C16: an accepted ingestChunk appends its chunk to the end of the session's
\* buffer and a refused one changes nothing; the artifact a close persists is
\* the chunks of that buffer end to end, first chunk first, and a session
\* closed before its ceiling is reached is persisted all the same.
RECURSIVE EndToEnd(_)
EndToEnd(chunks) ==
    IF chunks = <<>> THEN <<>>
    ELSE EndToEnd(SubSeq(chunks, 1, Len(chunks) - 1)) \o chunks[Len(chunks)]

TheOpen(ss, id) == CHOOSE s \in OpenSessions(ss) : s.id = id

IsOpen(ss, id) == \E s \in OpenSessions(ss) : s.id = id

C16_ArtifactIsConcatenation ==
    [][/\ (outcome'.op = "ingestChunk" /\ outcome'.error = "none") =>
            /\ IsOpen(sessions, outcome'.id) /\ IsOpen(sessions', outcome'.id)
            /\ \E bytes \in Chunks :
                  TheOpen(sessions', outcome'.id).chunks =
                     Append(TheOpen(sessions, outcome'.id).chunks, bytes)
       /\ (outcome'.op = "ingestChunk" /\ outcome'.error # "none") =>
            sessions' = sessions
       /\ (outcome'.op = "close" /\ IsOpen(sessions, outcome'.id)) =>
            LET s == TheOpen(sessions, outcome'.id)
                result == outcome'.result[1]
            IN  /\ result.ok =>
                      audioData'[s.id]["webm"] = <<EndToEnd(s.chunks)>>
                /\ ~result.ok =>
                      \/ EndToEnd(s.chunks) = <<>>
                      \/ result.error = "Failed to save audio file"]_vars

C16_Witness ==
    /\ outcome.op = "close"
    /\ outcome.result # <<>>
    /\ outcome.result[1].ok
    /\ audioData[outcome.id]["webm"] = << <<"b", "c", "a">> >>

\* C17: no round id ever has two OPEN sessions, and open(id) for an id whose
\* session is open fails with ConflictError and leaves every session, the
\* open one's buffer and byte count included, as it was.
C17_OneOpenSessionPerRound ==
    /\ [](\A id \in RoundIds :
            Cardinality({s \in OpenSessions(sessions) : s.id = id}) <= 1)
    /\ [][(outcome'.op = "open" /\ IsOpen(sessions, outcome'.id)) =>
            /\ outcome'.error = "ConflictError"
            /\ sessions' = sessions]_vars

C17_Witness ==
    /\ outcome.op = "open"
    /\ outcome.error = "ConflictError"
    /\ \E s \in OpenSessions(sessions) :
          s.id = outcome.id /\ s.byteCount = 3 /\ Len(s.chunks) = 2

\* C18: a session has been finalized once when it is CLOSED and not at all
\* while it is OPEN; the close that finalizes keeps the result it returns, and
\* a close(id) that finds the session of id closed runs no finalizer, returns
\* the kept result and changes no session and no file.
TheSession(ss, id) == CHOOSE s \in ss : s.id = id

C18_FinalizerRunsOnce ==
    /\ [](\A s \in sessions :
            /\ s.finalizerRuns = IF s.state = "CLOSED" THEN 1 ELSE 0
            /\ s.state = "CLOSED" <=> s.result # <<>>)
    /\ [][outcome'.op = "close" =>
            IF IsOpen(sessions, outcome'.id)
            THEN /\ outcome'.finalized
                 /\ TheSession(sessions', outcome'.id).result = outcome'.result
            ELSE /\ ~outcome'.finalized
                 /\ sessions' = sessions
                 /\ <<files, audioData>>' = <<files, audioData>>
                 /\ (\E s \in sessions : s.id = outcome'.id) =>
                       outcome'.result = TheSession(sessions, outcome'.id).result]_vars

C18_Witness ==
    /\ outcome.op = "close"
    /\ ~outcome.finalized
    /\ outcome.result = <<Persisted("webm")>>
    /\ \E s \in sessions :
          s.id = outcome.id /\ s.state = "CLOSED" /\ s.finalizerRuns = 1
    /\ audioData[outcome.id]["webm"] = << <<"a", "b", "c">> >>

\* C19: the close of an open session whose frames hold no byte fails with
\* EmptyAudioError, writes no audio file and leaves the round records as they
\* were; and no registry operation that ends in NotFoundError, CapacityError
\* or EmptyAudioError changes a round record.
IngestPathErrors == {"NotFoundError", "CapacityError", "EmptyAudioError"}

C19_EmptyCloseFails ==
    [][/\ (/\ outcome'.op = "close"
           /\ IsOpen(sessions, outcome'.id)
           /\ EndToEnd(TheOpen(sessions, outcome'.id).chunks) = <<>>)
          => /\ outcome'.error = "EmptyAudioError"
             /\ outcome'.result = <<Failed("EmptyAudioError")>>
             /\ <<audioFiles, audioData>>' = <<audioFiles, audioData>>
             /\ rounds' = rounds
       /\ outcome'.error \in IngestPathErrors => rounds' = rounds]_vars

C19_Witness ==
    /\ outcome.op = "close"
    /\ outcome.finalized
    /\ outcome.error = "EmptyAudioError"
    /\ outcome.id \in DOMAIN rounds
    /\ StatusOf(outcome.id) = "RECORDING"
    /\ audioFiles[outcome.id] = {}
    /\ \A e \in AudioExtensions : audioData[outcome.id][e] = <<>>

\* C20: the ontology built from a transcript with the results container has
\* as its duration the greatest utterance end (0 without utterances), as its
\* speaker count the number of distinct speaker labels, and one entry per
\* label whose total is the sum of the lengths of that speaker's utterances,
\* overlapping ones counted in full; A 0-5 and B 4-9 give 9, 2, A 5 and B 5.
RECURSIVE SumLengths(_, _)
SumLengths(utts, I) ==
    IF I = {} THEN 0
    ELSE LET i == CHOOSE j \in I : TRUE
         IN  (utts[i].end - utts[i].start) + SumLengths(utts, I \ {i})

C20_StatisticsDerived ==
    (ontology # <<>> /\ transcript.results = "object") =>
        LET utts == transcript.utterances
            built == ontology[1]
            labels == {utts[i].speaker : i \in DOMAIN utts}
            seconds == built.statistics.duration_seconds
        IN  /\ built.ok
            /\ utts = <<>> => seconds = 0
            /\ utts # <<>> => /\ \E i \in DOMAIN utts : utts[i].end = seconds
                              /\ \A i \in DOMAIN utts : utts[i].end <= seconds
            /\ built.statistics.total_speakers = Cardinality(labels)
            /\ {r.label : r \in built.speakers} = labels
            /\ Cardinality(built.speakers) = Cardinality(labels)
            /\ \A r \in built.speakers :
                  r.total_time =
                     SumLengths(utts, {i \in DOMAIN utts : utts[i].speaker = r.label})
            /\ utts = <<Utterance("A", 0, 5), Utterance("B", 4, 9)>> =>
                  /\ seconds = 9
                  /\ built.statistics.total_speakers = 2
                  /\ built.speakers = {[label |-> "A", total_time |-> 5],
                                        [label |-> "B", total_time |-> 5]}

C20_Witness ==
    /\ ontology # <<>>
    /\ transcript.results = "object"
    /\ transcript.utterances = <<Utterance("B", 4, 9), Utterance("A", 0, 5)>>
    /\ ontology[1].statistics.duration_seconds = 9
    /\ ontology[1].speakers = {[label |-> "A", total_time |-> 5],
                               [label |-> "B", total_time |-> 5]}

\* C21: an upload request whose form lacks the audio file or the round id is
\* answered with 400 in the step that reads the form, and that step writes no
\* round record and no file and calls no provider; no request goes on to the
\* PROCESSING write without both fields.
Lacking(done) == "form" \in done /\ ~({"audio", "roundId"} \subseteq done)

C21_UploadRejectedBeforeEffect ==
    /\ [](\A p \in Uploaders : ~Lacking(effects[p]))
    /\ [][(returned'.proc \in Uploaders /\ Lacking(returned'.effects)) =>
            /\ returned'.code = "400"
            /\ returned'.error \in {"No audio file provided", "Round ID is required"}
            /\ returned'.effects \cap {"processing", "provider", "built", "raw",
                                        "deliberation"} = {}
            /\ pc[returned'.proc] = "idle"
            /\ pc' = pc
            /\ globals' = globals]_vars

C21_Witness ==
    /\ returned.proc \in Uploaders
    /\ returned.code = "400"
    /\ returned.error = "Round ID is required"
    /\ returned.effects = {"form", "audio"}
    /\ 1 \in DOMAIN rounds
    /\ StatusOf(1) = "RECORDING"

\* C22: after saveAudioFile(id, bytes, ext) has returned its reference,
\* audioFileExists(id) returns that reference, whatever the extension and
\* whatever other audio files the round has.
C22_SavedAudioIsFound ==
    (outcome.op = "saveAudioFile" /\ outcome.error = "none")
        => audioFileExists(audioFiles, outcome.id) = outcome.ref

\* C23: a round whose deliberation file exists has its raw file too.
C23_NormalizedImpliesRaw ==
    \A id \in RoundIds : deliberationFile[id] # <<>> => rawFile[id] # <<>>


\* The media recorders that are recording or paused.
ActiveRecorders ==
    {r \in DOMAIN mediaRecorders : mediaRecorders[r].state # "inactive"}

\* The intervals that are running.
ActiveTimers == (IF timerRef THEN 1 ELSE 0) + orphanTimers

\* The calls of onRecordingComplete made for media recorder r.
CompletionsOf(r) == {i \in DOMAIN completed : completed[i].recorder = r}

\* C24: a started recording calls onRecordingComplete exactly once when its
\* recorder has stopped, with the blob of exactly the non-empty chunks that
\* recorder emitted, in arrival order, and the component is then idle: not
\* recording, not paused, duration 0, no chunks.
C24_CompletesOnceWithItsChunks ==
    /\ [](\A r \in DOMAIN mediaRecorders : Cardinality(CompletionsOf(r)) <= 1)
    /\ []((mounted /\ ~isRecording /\ pendingStarts = <<>>) =>
             \A r \in DOMAIN mediaRecorders : Cardinality(CompletionsOf(r)) = 1)
    /\ [][Len(completed') > Len(completed) =>
            LET call == completed'[Len(completed')]
            IN  /\ call.blob = mediaRecorders'[call.recorder].emitted
                /\ mounted => /\ ~isRecording' /\ ~isPaused'
                              /\ duration' = 0
                              /\ chunksRef' = <<>>]_vars

\* C25: at most one media recorder is active and at most one interval runs,
\* and an active media recorder is the one mediaRecorderRef holds.
C25_OneRecorderOneTimer ==
    /\ Cardinality(ActiveRecorders) <= 1
    /\ ActiveTimers <= 1
    /\ \A r \in ActiveRecorders : mediaRecorderRef = r

\* C26: the duration given to onRecordingComplete is the duration the
\* component showed when the recorder was stopped.
C26_DurationIsTheShownOne ==
    \A i \in DOMAIN completed :
        completed[i].duration = mediaRecorders[completed[i].recorder].shown[1]

====
